---- MODULE Spec2Model ----
(***************************************************************************)
(* A model of bson/codec_options.py: the CodecOptions value object, its    *)
(* three read-only properties, __eq__ / __ne__, and _parse_codec_options.  *)
(*                                                                         *)
(* Python values are records [t |-> type name, v |-> integer payload]:     *)
(*   bool  v in {0,1}      int v = the integer     float v = the integral  *)
(*   float v.0             NoneType v = 0          str v = a string id     *)
(*   type  v = a class id  CodecOptions v = index of the instance in heap  *)
(* so that isinstance / issubclass / == can be computed the way the        *)
(* interpreter computes them (True == 1 and 3 == 3.0 are true, but         *)
(* isinstance(1, bool) is false, and == with a CodecOptions operand runs   *)
(* CodecOptions.__eq__).                                                   *)
(***************************************************************************)
EXTENDS Integers, Sequences, FiniteSets, TLC

VARIABLES heap, call, ret

vars == <<heap, call, ret>>

(***************************************************************************)
(* Bounds                                                                  *)
(***************************************************************************)
MaxInstances == 2
MaxCompared == 3
RecursionLimit == 4

(***************************************************************************)
(* Python values                                                           *)
(***************************************************************************)
Val(t, v) == [t |-> t, v |-> v]

None == Val("NoneType", 0)
True == Val("bool", 1)
False == Val("bool", 0)
PyInt(n) == Val("int", n)
PyFloat(n) == Val("float", n)
PyStr(n) == Val("str", n)
Ref(i) == Val("CodecOptions", i)

\* classes (type objects); two type objects are equal iff they are the same
dict == Val("type", 1)
OrderedDict == Val("type", 2)
list == Val("type", 3)

\* collections.MutableMapping: the classes for which issubclass(.., MutableMapping)
MutableMapping == {dict, OrderedDict}

\* bson.binary (imported, line 19): the enumerated representations and the
\* legacy default; __init__ only tests membership with ==
OLD_UUID_SUBTYPE == 3
UUID_SUBTYPE == 4
JAVA_LEGACY == 5
CSHARP_LEGACY == 6
PYTHON_LEGACY == PyInt(OLD_UUID_SUBTYPE)
ALL_UUID_REPRESENTATIONS ==
    <<PyInt(OLD_UUID_SUBTYPE), PyInt(UUID_SUBTYPE), PyInt(JAVA_LEGACY), PyInt(CSHARP_LEGACY)>>

Numeric == {"bool", "int", "float"}

isinstance(x, t) == x.t = t

(***************************************************************************)
(* Outcomes of a call or of an expression                                  *)
(***************************************************************************)
Return(val) == [kind |-> "return", exc |-> "", msg |-> "", val |-> val]
Raise(exc, msg) == [kind |-> "raise", exc |-> exc, msg |-> msg, val |-> None]

RECURSIVE __eq__(_, _)

\* x == y of the interpreter. A CodecOptions on the left runs its __eq__; a
\* CodecOptions on the right of a value of another type runs the reflected
\* __eq__ (the left operand's own comparison returns NotImplemented).
PyEq(x, y) ==
    IF isinstance(x, "CodecOptions") THEN __eq__(heap[x.v], y)
    ELSE IF isinstance(y, "CodecOptions") THEN __eq__(heap[y.v], x)
    ELSE Return(IF IF x.t \in Numeric /\ y.t \in Numeric THEN x.v = y.v
                      ELSE x.t = y.t /\ x.v = y.v
                THEN True ELSE False)

\* a and b: a when it raised or is false, else b
PyAnd(a, b) == IF a.kind = "raise" \/ a.val = False THEN a ELSE b

\* x in seq, from index k on (tuple membership: seq[k] == x for each element in
\* turn, stopping at the first that is true or that raises)
RECURSIVE PyInFrom(_, _, _)
PyInFrom(x, seq, k) ==
    IF k > Len(seq) THEN Return(False)
    ELSE LET e == PyEq(seq[k], x)
         IN  IF e.kind = "raise" THEN e
             ELSE IF e.val = True THEN Return(True)
             ELSE PyInFrom(x, seq, k + 1)

PyIn(x, seq) == PyInFrom(x, seq, 1)

Slots(c, t, u) == [__as_class |-> c, __tz_aware |-> t, __uuid_rep |-> u]
Unset == Slots(None, None, None)

(***************************************************************************)
(* The exceptions CodecOptions.__init__ raises                             *)
(***************************************************************************)
NotAClass == Raise("TypeError", "issubclass() arg 1 must be a class")
NotAMapping == Raise("TypeError", "document_class must be a subclass of MutableMapping")
NotABool == Raise("TypeError", "tz_aware must be a boolean")
NotAUuidRep == Raise("ValueError",
                     "uuid_representation must be a value from bson.binary.ALL_UUID_REPRESENTATIONS")

Failed(exception) == [raised |-> exception, self |-> Unset]
Assigned(c, t, u) == [raised |-> Return(None), self |-> Slots(c, t, u)]

\* variants of __init__ with one slip each
init_stores_default(as_class, tz_aware, uuid_representation) ==
    IF ~isinstance(as_class, "type") THEN Failed(NotAClass)
    ELSE IF as_class \notin MutableMapping THEN Failed(NotAMapping)
    ELSE IF ~isinstance(tz_aware, "bool") THEN Failed(NotABool)
    ELSE LET member == PyIn(uuid_representation, ALL_UUID_REPRESENTATIONS)
         IN  IF member.kind = "raise" THEN Failed(member)
             ELSE IF member.val # True THEN Failed(NotAUuidRep)
             ELSE Assigned(as_class, tz_aware, PYTHON_LEGACY)

init_uuid_first(as_class, tz_aware, uuid_representation) ==
    IF PyIn(uuid_representation, ALL_UUID_REPRESENTATIONS).kind = "raise"
    THEN Failed(PyIn(uuid_representation, ALL_UUID_REPRESENTATIONS))
    ELSE IF PyIn(uuid_representation, ALL_UUID_REPRESENTATIONS).val # True
    THEN Failed(NotAUuidRep)
    ELSE IF ~isinstance(as_class, "type") THEN Failed(NotAClass)
    ELSE IF as_class \notin MutableMapping THEN Failed(NotAMapping)
    ELSE IF ~isinstance(tz_aware, "bool") THEN Failed(NotABool)
    ELSE Assigned(as_class, tz_aware, uuid_representation)

init_no_uuid_check(as_class, tz_aware, uuid_representation) ==
    IF ~isinstance(as_class, "type") THEN Failed(NotAClass)
    ELSE IF as_class \notin MutableMapping THEN Failed(NotAMapping)
    ELSE IF ~isinstance(tz_aware, "bool") THEN Failed(NotABool)
    ELSE Assigned(as_class, tz_aware, uuid_representation)

init_int_is_bool(as_class, tz_aware, uuid_representation) ==
    IF ~isinstance(as_class, "type") THEN Failed(NotAClass)
    ELSE IF as_class \notin MutableMapping THEN Failed(NotAMapping)
    ELSE IF ~(isinstance(tz_aware, "bool") \/ isinstance(tz_aware, "int"))
    THEN Failed(NotABool)
    ELSE LET member == PyIn(uuid_representation, ALL_UUID_REPRESENTATIONS)
         IN  IF member.kind = "raise" THEN Failed(member)
             ELSE IF member.val # True THEN Failed(NotAUuidRep)
             ELSE Assigned(as_class, tz_aware, uuid_representation)

init_any_class(as_class, tz_aware, uuid_representation) ==
    IF ~isinstance(as_class, "type") THEN Failed(NotAClass)
    ELSE IF ~isinstance(tz_aware, "bool") THEN Failed(NotABool)
    ELSE LET member == PyIn(uuid_representation, ALL_UUID_REPRESENTATIONS)
         IN  IF member.kind = "raise" THEN Failed(member)
             ELSE IF member.val # True THEN Failed(NotAUuidRep)
             ELSE Assigned(as_class, tz_aware, uuid_representation)

(***************************************************************************)
(* CodecOptions.__init__: the raised exception, or the slots it assigns.   *)
(* issubclass raises TypeError itself when its first argument is no class, *)
(* and an exception raised by a == of the membership test propagates.      *)
(***************************************************************************)
__init__(as_class, tz_aware, uuid_representation) ==
    IF ~isinstance(as_class, "type") THEN Failed(NotAClass)
    ELSE IF as_class \notin MutableMapping THEN Failed(NotAMapping)
    ELSE IF ~isinstance(tz_aware, "bool") THEN Failed(NotABool)
    ELSE LET member == PyIn(uuid_representation, ALL_UUID_REPRESENTATIONS)
         IN  IF member.kind = "raise" THEN Failed(member)
             ELSE IF member.val # True THEN Failed(NotAUuidRep)
             ELSE Assigned(as_class, tz_aware, uuid_representation)

(***************************************************************************)
(* The read-only properties                                                *)
(***************************************************************************)
as_class(self) == self.__as_class
tz_aware(self) == self.__tz_aware
uuid_representation(self) == self.__uuid_rep

(***************************************************************************)
(* CodecOptions.__eq__(self, other): self is the instance's slots, other   *)
(* any value; a CodecOptions operand is read through its properties        *)
(***************************************************************************)
eq_ignores_uuid_rep(self, other) ==
    IF isinstance(other, "CodecOptions")
    THEN PyAnd(PyEq(self.__as_class, as_class(heap[other.v])),
               PyEq(self.__tz_aware, tz_aware(heap[other.v])))
    ELSE Raise("NotImplementedError", "")

eq_other_type_unequal(self, other) ==
    IF isinstance(other, "CodecOptions")
    THEN PyAnd(PyEq(self.__as_class, as_class(heap[other.v])),
               PyAnd(PyEq(self.__tz_aware, tz_aware(heap[other.v])),
                     PyEq(self.__uuid_rep, uuid_representation(heap[other.v]))))
    ELSE Return(False)

__eq__(self, other) ==
    IF isinstance(other, "CodecOptions")
    THEN PyAnd(PyEq(self.__as_class, as_class(heap[other.v])),
               PyAnd(PyEq(self.__tz_aware, tz_aware(heap[other.v])),
                     PyEq(self.__uuid_rep, uuid_representation(heap[other.v]))))
    ELSE Raise("NotImplementedError", "")

(***************************************************************************)
(* CodecOptions.__ne__(self, other): "return self != other" dispatches to  *)
(* __ne__ of the same operands again; depth is the number of frames in     *)
(* use, and the interpreter raises once the limit is passed                *)
(***************************************************************************)
RECURSIVE __ne__(_, _, _)
__ne__(self, other, depth) ==
    IF depth > RecursionLimit
    THEN Raise("RecursionError", "maximum recursion depth exceeded")
    ELSE __ne__(self, other, depth + 1)

(***************************************************************************)
(* Option bags: functions from a finite set of string keys to values       *)
(***************************************************************************)
get(options, key, default) ==
    IF key \in DOMAIN options THEN options[key] ELSE default

parse_misspelt_key(options) ==
    <<get(options, "document_class", dict),
      get(options, "tz_aware", False),
      get(options, "uuid_representation", PYTHON_LEGACY)>>

\* _parse_codec_options(options): the three arguments handed to CodecOptions
_parse_codec_options(options) ==
    <<get(options, "document_class", dict),
      get(options, "tz_aware", False),
      get(options, "uuidrepresentation", PYTHON_LEGACY)>>

(***************************************************************************)
(* Inputs                                                                  *)
(***************************************************************************)
Absent == Val("<absent>", 0)

ClassInputs == {dict, OrderedDict, list, PyInt(5)}
TzInputs == {True, False, PyInt(1), PyStr(1), None}
UuidInputs == {PyInt(3), PyInt(4), PyFloat(3), PyInt(7)}
OtherInputs == {None, PyInt(3), dict}
Properties == {"as_class", "tz_aware", "uuid_representation"}

\* values an option bag may hold under each key (Absent: the key is left out)
BagClassInputs == {OrderedDict, list, Absent}
BagTzInputs == {True, PyInt(1), Absent}
BagUuidInputs == {PyFloat(3), PyInt(7), Absent}
BagOtherInputs == {PyInt(123), Absent}

\* the bag holding the given values, a key being left out when its value is Absent
BagOf(c, t, u, x) ==
    LET all == [document_class |-> c, tz_aware |-> t,
                uuidrepresentation |-> u, unrelated_key |-> x]
    IN  [k \in {j \in DOMAIN all : all[j] # Absent} |-> all[k]]

Refs == {Ref(i) : i \in DOMAIN heap}

\* an existing instance handed in where a uuid_representation is expected
InstanceInputs == {Ref(i) : i \in DOMAIN heap \cap {1}}

Init ==
    /\ heap = <<>>
    /\ call = [fn |-> "", args |-> <<>>]
    /\ ret = Return(None)

\* the instantiation CodecOptions(as_class, tz_aware, uuid_representation)
Construct(fn, args, c, t, u) ==
    /\ call' = [fn |-> fn, args |-> args]
    /\ LET r == __init__(c, t, u) IN
       IF r.raised.kind = "raise"
       THEN /\ ret' = r.raised
            /\ UNCHANGED heap
       ELSE /\ heap' = Append(heap, r.self)
            /\ ret' = Return(Ref(Len(heap) + 1))

CodecOptions(c, t, u) == Construct("CodecOptions", <<c, t, u>>, c, t, u)

ParseCodecOptions(options) ==
    LET a == _parse_codec_options(options)
    IN  Construct("_parse_codec_options", <<options>>, a[1], a[2], a[3])

Eq_assigns(i, other) ==
    /\ call' = [fn |-> "__eq__", args |-> <<Ref(i), other>>]
    /\ ret' = __eq__(heap[i], other)
    /\ heap' = IF isinstance(other, "CodecOptions")
               THEN [heap EXCEPT ![i].__tz_aware = tz_aware(heap[other.v])]
               ELSE heap

\* heap[i] == other
Eq(i, other) ==
    /\ call' = [fn |-> "__eq__", args |-> <<Ref(i), other>>]
    /\ ret' = __eq__(heap[i], other)
    /\ UNCHANGED heap

\* heap[i] != other
Ne(i, other) ==
    /\ call' = [fn |-> "__ne__", args |-> <<Ref(i), other>>]
    /\ ret' = __ne__(heap[i], other, 1)
    /\ UNCHANGED heap

\* heap[i].as_class, heap[i].tz_aware, heap[i].uuid_representation
Read(i, property) ==
    /\ call' = [fn |-> property, args |-> <<Ref(i)>>]
    /\ ret' = Return(CASE property = "as_class" -> as_class(heap[i])
                       [] property = "tz_aware" -> tz_aware(heap[i])
                       [] property = "uuid_representation" -> uuid_representation(heap[i]))
    /\ UNCHANGED heap

\* every operation, on at most MaxInstances instances
Next ==
    \/ /\ Len(heap) < MaxInstances
       /\ \E c \in ClassInputs, t \in TzInputs, u \in UuidInputs \cup InstanceInputs :
             CodecOptions(c, t, u)
    \/ /\ Len(heap) < MaxInstances
       /\ \E c \in BagClassInputs, t \in BagTzInputs,
             u \in BagUuidInputs \cup InstanceInputs, x \in BagOtherInputs :
             ParseCodecOptions(BagOf(c, t, u, x))
    \/ \E i \in DOMAIN heap, other \in Refs \cup OtherInputs : Eq(i, other)
    \/ \E i \in DOMAIN heap, other \in Refs \cup {None} : Ne(i, other)
    \/ \E i \in DOMAIN heap, property \in Properties : Read(i, property)

\* construction and == only, on at most MaxCompared instances: the values
\* that give instances differing in each single field, values of different
\* types that compare equal (3 and 3.0), and one that is rejected
ComparedUuidInputs == {PyInt(3), PyFloat(3), PyInt(4), PyInt(7)}

NextEq ==
    \/ /\ Len(heap) < MaxCompared
       /\ \E c \in MutableMapping, t \in {True, False}, u \in ComparedUuidInputs :
             CodecOptions(c, t, u)
    \/ \E i \in DOMAIN heap, other \in Refs \cup {None} : Eq(i, other)

SpecEq == Init /\ [][NextEq]_vars

(***************************************************************************)
(* Properties                                                              *)
(***************************************************************************)

\* C1: a construction whose container type is a MutableMapping subclass, whose
\* tz_aware is a genuine bool and whose uuid_representation is in
\* ALL_UUID_REPRESENTATIONS raises nothing, and the three properties of the
\* new instance return exactly the three supplied values.
C1_ValidConstructionReturnsSupplied ==
    (/\ call.fn = "CodecOptions"
     /\ call.args[1] \in MutableMapping
     /\ call.args[2] \in {True, False}
     /\ PyIn(call.args[3], ALL_UUID_REPRESENTATIONS) = Return(True))
    => /\ ret.kind = "return"
       /\ ret.val.t = "CodecOptions"
       /\ ret.val.v \in DOMAIN heap
       /\ as_class(heap[ret.val.v]) = call.args[1]
       /\ tz_aware(heap[ret.val.v]) = call.args[2]
       /\ uuid_representation(heap[ret.val.v]) = call.args[3]

C1_Witness ==
    /\ call.fn = "CodecOptions"
    /\ call.args = <<OrderedDict, True, PyFloat(3)>>
    /\ ret.kind = "return"
    /\ heap[ret.val.v] = Slots(OrderedDict, True, PyFloat(3))

\* C2 as claimed: a == b between two instances returns True exactly when the
\* three fields are pairwise equal, so that changing any one of the three
\* fields of a valid triple (to any other value construction accepts) makes
\* the two instances unequal.
C2_ChangingOneFieldUnequal ==
    (call.fn = "__eq__" /\ call.args[2].t = "CodecOptions")
    => LET a == heap[call.args[1].v]
           b == heap[call.args[2].v]
       IN  /\ ret.kind = "return"
           /\ ret.val = True <=> a = b
           /\ Cardinality({f \in {"__as_class", "__tz_aware", "__uuid_rep"} :
                             a[f] # b[f]}) = 1
              => ret = Return(False)

\* C2 as amended: a == b between two instances returns True exactly when the
\* three fields compare equal pairwise under == (and False otherwise); == is
\* reflexive, symmetric (b == a gives the same) and transitive (when a == b
\* and b == c for an instance c, then a == c); two instances with exactly one
\* field that does not compare equal are unequal, while a field changed to a
\* value that compares equal to it (3 to 3.0) leaves the instances equal.
C2_EqIffFieldsCompareEqual ==
    (call.fn = "__eq__" /\ call.args[2].t = "CodecOptions")
    => LET a == heap[call.args[1].v]
           b == heap[call.args[2].v]
       IN  /\ ret.kind = "return"
           /\ ret.val \in {True, False}
           /\ ret.val = True <=> /\ PyEq(a.__as_class, b.__as_class) = Return(True)
                                 /\ PyEq(a.__tz_aware, b.__tz_aware) = Return(True)
                                 /\ PyEq(a.__uuid_rep, b.__uuid_rep) = Return(True)
           /\ call.args[1] = call.args[2] => ret = Return(True)
           /\ ret = __eq__(b, call.args[1])
           /\ \A k \in DOMAIN heap :
                 (ret = Return(True) /\ __eq__(b, Ref(k)) = Return(True))
                 => __eq__(a, Ref(k)) = Return(True)
           /\ Cardinality({f \in {"__as_class", "__tz_aware", "__uuid_rep"} :
                             PyEq(a[f], b[f]) # Return(True)}) = 1
              => ret = Return(False)
           /\ (/\ a.__as_class = b.__as_class
               /\ a.__tz_aware = b.__tz_aware
               /\ {a.__uuid_rep, b.__uuid_rep} = {PyInt(3), PyFloat(3)})
              => ret = Return(True)

\* three instances, pairwise equal, the middle one holding 3.0 where the
\* others hold 3, and the first compared with the second
C2_Witness ==
    /\ Len(heap) = 3
    /\ heap[1].__uuid_rep = PyInt(3)
    /\ heap[2].__uuid_rep = PyFloat(3)
    /\ heap[3].__uuid_rep = PyInt(3)
    /\ __eq__(heap[2], Ref(3)) = Return(True)
    /\ call.fn = "__eq__"
    /\ call.args = <<Ref(1), Ref(2)>>
    /\ ret = Return(True)

\* C3: a != b between two instances terminates and returns the negation of
\* a == b: True exactly when at least one of the three fields differs.
C3_NeIsNegationOfEq ==
    (call.fn = "__ne__" /\ call.args[2].t = "CodecOptions")
    => LET a == heap[call.args[1].v]
           b == heap[call.args[2].v]
       IN  /\ ret.kind = "return"
           /\ ret.val = IF /\ PyEq(a.__as_class, b.__as_class) = Return(True)
                           /\ PyEq(a.__tz_aware, b.__tz_aware) = Return(True)
                           /\ PyEq(a.__uuid_rep, b.__uuid_rep) = Return(True)
                        THEN False ELSE True

\* C4: a == x for an x that is no CodecOptions instance never returns; it
\* raises NotImplementedError whatever the fields of a are.
C4_EqOtherTypeRaises ==
    (call.fn = "__eq__" /\ call.args[2].t # "CodecOptions")
    => /\ ret.kind = "raise"
       /\ ret.exc = "NotImplementedError"

C4_Witness ==
    /\ call.fn = "__eq__"
    /\ call.args[2] = PyInt(3)
    /\ heap[call.args[1].v].__uuid_rep = PyInt(3)
    /\ ret.kind = "raise"

\* C5: construction checks the container type, then tz_aware, then
\* uuid_representation, and reports the first failure: a bad container type
\* gives the container TypeError and a bad tz_aware (with a good container)
\* the tz_aware TypeError, whatever the later arguments are; the error of the
\* uuid_representation check (ValueError, or the NotImplementedError that ==
\* raises for a CodecOptions operand) is raised only when the container type
\* and tz_aware are both valid.
C5_FirstFailingCheckReported ==
    call.fn = "CodecOptions"
    => LET cOK == call.args[1] \in MutableMapping
           tOK == call.args[2] \in {True, False}
           uOK == PyIn(call.args[3], ALL_UUID_REPRESENTATIONS) = Return(True)
       IN  /\ ~cOK => ret \in {NotAClass, NotAMapping}
           /\ (cOK /\ ~tOK) => ret = NotABool
           /\ (cOK /\ tOK /\ ~uOK)
              => ret = IF call.args[3].t = "CodecOptions"
                       THEN Raise("NotImplementedError", "") ELSE NotAUuidRep
           /\ ret.exc \in {"ValueError", "NotImplementedError"} => (cOK /\ tOK)

C5_Witness ==
    /\ call.fn = "CodecOptions"
    /\ call.args = <<list, PyInt(1), PyInt(7)>>
    /\ ret = NotAMapping

\* C6 as claimed: a uuid_representation that is no member of
\* ALL_UUID_REPRESENTATIONS makes construction raise ValueError, whatever the
\* other two arguments are.
C6_InvalidUuidAlwaysValueError ==
    (/\ call.fn = "CodecOptions"
     /\ PyIn(call.args[3], ALL_UUID_REPRESENTATIONS) # Return(True))
    => /\ ret.kind = "raise"
       /\ ret.exc = "ValueError"

\* C6 as amended: a uuid_representation that is no member of
\* ALL_UUID_REPRESENTATIONS makes construction fail with the error of the
\* first failing check: TypeError when the container type is no
\* MutableMapping subclass or tz_aware no genuine bool; otherwise ValueError,
\* except for a value that is itself a CodecOptions instance, for which the
\* == of the membership test raises NotImplementedError.
C6_InvalidUuidFailsByFirstCheck ==
    (/\ call.fn = "CodecOptions"
     /\ PyIn(call.args[3], ALL_UUID_REPRESENTATIONS) # Return(True))
    => /\ ret.kind = "raise"
       /\ ret.exc = IF ~(call.args[1] \in MutableMapping /\ call.args[2] \in {True, False})
                    THEN "TypeError"
                    ELSE IF call.args[3].t = "CodecOptions"
                    THEN "NotImplementedError"
                    ELSE "ValueError"

C6_Witness ==
    /\ call.fn = "CodecOptions"
    /\ call.args = <<dict, False, PyInt(7)>>
    /\ ret = NotAUuidRep

\* C7: a tz_aware that is not a genuine bool (0, 1, a string, None) makes
\* construction raise TypeError for every value of the other two arguments;
\* nothing is coerced, so no instance holds anything but True or False.
C7_NonBoolTzAwareTypeError ==
    /\ (call.fn = "CodecOptions" /\ call.args[2].t # "bool")
       => /\ ret.kind = "raise"
          /\ ret.exc = "TypeError"
          /\ ret.val = None
    /\ \A i \in DOMAIN heap : heap[i].__tz_aware \in {True, False}

C7_Witness ==
    /\ call.fn = "CodecOptions"
    /\ call.args = <<dict, PyInt(1), PyInt(3)>>
    /\ ret = NotABool

\* C8: a container type that is no MutableMapping subclass makes construction
\* raise TypeError for every bool tz_aware and every uuid_representation of
\* the enumerated set, so no instance ever holds such a container type.
C8_NonMappingContainerTypeError ==
    /\ (/\ call.fn = "CodecOptions"
        /\ call.args[1] \notin MutableMapping
        /\ call.args[2] \in {True, False}
        /\ PyIn(call.args[3], ALL_UUID_REPRESENTATIONS) = Return(True))
       => /\ ret.kind = "raise"
          /\ ret.exc = "TypeError"
    /\ \A i \in DOMAIN heap : heap[i].__as_class \in MutableMapping

C8_Witness ==
    /\ call.fn = "CodecOptions"
    /\ call.args = <<list, True, PyInt(4)>>
    /\ ret = NotAMapping

\* C9: _parse_codec_options(bag) has the outcome of CodecOptions(c, t, u)
\* where c, t, u are the bag's values under 'document_class', 'tz_aware' and
\* 'uuidrepresentation', or dict, False, PYTHON_LEGACY for an absent key: the
\* same exception, or an instance whose fields are exactly c, t, u; other
\* keys play no part, and a bag with none of the three keys gives the
\* all-defaults instance.
C9_ParseIsConstructOfResolved ==
    call.fn = "_parse_codec_options"
    => LET bag == call.args[1]
           c == IF "document_class" \in DOMAIN bag THEN bag["document_class"] ELSE dict
           t == IF "tz_aware" \in DOMAIN bag THEN bag["tz_aware"] ELSE False
           u == IF "uuidrepresentation" \in DOMAIN bag
                THEN bag["uuidrepresentation"] ELSE PYTHON_LEGACY
           r == __init__(c, t, u)
       IN  IF r.raised.kind = "raise"
           THEN ret = r.raised
           ELSE /\ ret.kind = "return"
                /\ ret.val.t = "CodecOptions"
                /\ ret.val.v \in DOMAIN heap
                /\ heap[ret.val.v] = r.self
                /\ heap[ret.val.v] = Slots(c, t, u)
                /\ (DOMAIN bag \subseteq {"unrelated_key"})
                   => __eq__(__init__(dict, False, PYTHON_LEGACY).self, ret.val) = Return(True)

C9_Witness ==
    /\ call.fn = "_parse_codec_options"
    /\ DOMAIN call.args[1] = {"uuidrepresentation", "unrelated_key"}
    /\ call.args[1]["uuidrepresentation"] = PyFloat(3)
    /\ ret.kind = "return"
    /\ heap[ret.val.v] = Slots(dict, False, PyFloat(3))

\* C10: no step changes the fields of an instance that exists: constructing,
\* parsing, reading and comparing leave every earlier instance as it was, a
\* new instance holds the values supplied to its construction, and a property
\* read returns the field of the instance read.
C10_FieldsNeverChange ==
    [][/\ \A i \in DOMAIN heap : i \in DOMAIN heap' /\ heap'[i] = heap[i]
       /\ (call'.fn = "CodecOptions" /\ ret'.kind = "return")
          => heap'[ret'.val.v] = Slots(call'.args[1], call'.args[2], call'.args[3])
       /\ call'.fn = "as_class" => ret'.val = heap[call'.args[1].v].__as_class
       /\ call'.fn = "tz_aware" => ret'.val = heap[call'.args[1].v].__tz_aware
       /\ call'.fn = "uuid_representation"
          => ret'.val = heap[call'.args[1].v].__uuid_rep]_vars

C10_Witness ==
    /\ Len(heap) = 2
    /\ heap[1] = Slots(OrderedDict, True, PyFloat(3))
    /\ heap[2] = Slots(dict, False, PyInt(4))
    /\ call.fn = "uuid_representation"
    /\ call.args = <<Ref(1)>>
    /\ ret = Return(PyFloat(3))

Spec == Init /\ [][Next]_vars
====
